---- MODULE Spec2Model ----
(***************************************************************************)
(* Security anomaly detection pipeline (Security/detect_anomalies.py) and  *)
(* the reports API (backend/main.py, backend/database.py).                 *)
(*                                                                         *)
(* A log row is a record [timestamp, user_id, ip_address, action].         *)
(*   timestamp   minutes since 00:00 of day 1 of the month                 *)
(*   ip_address  the dotted string, as the tuple of its dot-separated      *)
(*               numbers (<<10,0,0,5>> is "10.0.0.5"); a tuple that is not *)
(*               four numbers in 0..255 is a string ipaddress rejects      *)
(* A timedelta is a number of minutes.                                     *)
(***************************************************************************)
EXTENDS Integers, Sequences, FiniteSets, TLC

VARIABLES
    csv_found,   \* whether the file named by self.csv_file exists
    csv,         \* the rows of the file, in file order
    df,          \* self.df (<<>> while it is None)
    anomalies,   \* self.anomalies
    report,      \* <<r>> once generate_report has returned r, <<>> before
    pc,          \* position of main() / run_analysis()
    hashseed,    \* the process's string-hash seed (PYTHONHASHSEED)
    first_report, \* <<r>> in a second execution of the script: the report of the first
    reports,     \* backend: the rows of table reports of reports.db, in rowid order
    request,     \* backend: the request served last (<<>> before the first)
    response,    \* backend: the response to it
    invoked,     \* backend: the endpoint and db_manager methods called for it
    emitted      \* when the detectors run side by side: how many of its
                 \* findings each has appended

vars == <<csv_found, csv, df, anomalies, report, pc, hashseed, first_report,
          reports, request, response, invoked, emitted>>

\* the state of the reports API (backend/main.py), a program of its own
web == <<reports, request, response, invoked>>

\* the state of detect_anomalies.py
pipeline == <<csv_found, csv, df, anomalies, report, pc, hashseed, first_report, emitted>>

(***************************************************************************)
(* Bounds of the model.                                                    *)
(***************************************************************************)
MaxRows == 3
MaxRowsBF == 5
MaxRowsPE == 6
MaxRowsDE == 10

HashSeeds == {0, 1}
Clock == {7000, 7001}

(***************************************************************************)
(* Python / pandas primitives.                                             *)
(***************************************************************************)
Last(s) == s[Len(s)]

RECURSIVE Concat(_)
Concat(ss) == IF ss = <<>> THEN <<>> ELSE Head(ss) \o Concat(Tail(ss))

Range(s) == {s[i] : i \in 1..Len(s)}

\* Tuple comparison as Python compares str / tuple values: lexicographic.
RECURSIVE LexLess(_, _)
LexLess(a, b) ==
    IF a = <<>> THEN b # <<>>
    ELSE IF b = <<>> THEN FALSE
    ELSE IF Head(a) # Head(b) THEN Head(a) < Head(b)
    ELSE LexLess(Tail(a), Tail(b))

\* Timestamp.hour
hour_of(t) == (t \div 60) % 24

\* Timestamp.isoformat(): zero-padded fixed-width fields "DDTHH:MM", kept as
\* the tuple of its digits (year and month are the same for every row).
isoformat(t) ==
    LET day == (t \div 1440) + 1
        h   == hour_of(t)
        m   == t % 60
    IN  <<day \div 10, day % 10, h \div 10, h % 10, m \div 10, m % 10>>

\* Series.unique(): the distinct values in order of first appearance.
RECURSIVE unique(_)
unique(s) ==
    IF s = <<>> THEN <<>>
    ELSE LET init == unique(SubSeq(s, 1, Len(s) - 1))
         IN  IF Last(s) \in Range(init) THEN init ELSE Append(init, Last(s))

column(d, name) == [i \in 1..Len(d) |-> d[i][name]]

\* DataFrame.sort_values('timestamp'): ascending; numpy's quicksort sorts a
\* partition of at most 16 elements by insertion, which keeps the order of
\* rows with equal timestamps.
RECURSIVE insert_row(_, _)
insert_row(sorted, row) ==
    IF sorted = <<>> THEN <<row>>
    ELSE IF Last(sorted).timestamp <= row.timestamp THEN Append(sorted, row)
    ELSE Append(insert_row(SubSeq(sorted, 1, Len(sorted) - 1), row), Last(sorted))

RECURSIVE sort_values(_)
sort_values(d) ==
    IF d = <<>> THEN <<>>
    ELSE insert_row(sort_values(SubSeq(d, 1, Len(d) - 1)), Last(d))

\* list(set(xs)) over strings: iteration order of a set of str depends on the
\* process's hash seed. universe lists every string that can occur.
RECURSIVE reverse(_)
reverse(s) == IF s = <<>> THEN <<>> ELSE Append(reverse(Tail(s)), Head(s))

list_set(xs, universe) ==
    LET present == SelectSeq(universe, LAMBDA x : x \in Range(xs))
    IN  IF hashseed = 0 THEN present ELSE reverse(present)

UserUniverse == <<"u1", "u2">>
TypeUniverse == <<"brute_force_attempt", "suspicious_ip", "external_ip_access",
                  "geo_hop", "off_hours_login", "privilege_escalation",
                  "data_exfiltration">>

(***************************************************************************)
(* IP classification.                                                      *)
(***************************************************************************)
\* ipaddress.IPv4Address(ip) succeeds
IPv4Address_ok(ip) == Len(ip) = 4 /\ \A i \in 1..4 : ip[i] \in 0..255

\* self.internal_ip_ranges, each as the predicate "ip_obj in network"
in_192_168_0_0_16(ip) == ip[1] = 192 /\ ip[2] = 168
in_10_0_0_0_8(ip) == ip[1] = 10
in_172_16_0_0_12(ip) == ip[1] = 172 /\ ip[2] \in 16..31

is_internal_ip_fail_closed(ip) ==
    IF IPv4Address_ok(ip)
    THEN in_192_168_0_0_16(ip) \/ in_10_0_0_0_8(ip) \/ in_172_16_0_0_12(ip)
    ELSE TRUE

is_internal_ip(ip) ==
    IF IPv4Address_ok(ip)
    THEN in_192_168_0_0_16(ip) \/ in_10_0_0_0_8(ip) \/ in_172_16_0_0_12(ip)
    ELSE FALSE

\* str(n) of a number n >= 0, as the tuple of its characters
Digits == <<"0", "1", "2", "3", "4", "5", "6", "7", "8", "9">>

RECURSIVE str(_)
str(n) == IF n < 10 THEN <<Digits[n + 1]>> ELSE Append(str(n \div 10), Digits[(n % 10) + 1])

\* A label is the tuple of its dot-separated fields, each the tuple of its
\* characters: "10.x.x.x" is <<<<"1", "0">>, <<"x">>, <<"x">>, <<"x">>>>.
get_ip_network_172_16_only(ip) ==
    IF IPv4Address_ok(ip)
    THEN IF in_192_168_0_0_16(ip)
         THEN <<<<"1", "9", "2">>, <<"1", "6", "8">>, <<"x">>, <<"x">>>>
         ELSE IF in_10_0_0_0_8(ip)
         THEN <<<<"1", "0">>, <<"x">>, <<"x">>, <<"x">>>>
         ELSE IF ip[1] = 172 /\ ip[2] = 16
         THEN <<<<"1", "7", "2">>, <<"1", "6", "-", "3", "1">>, <<"x">>, <<"x">>>>
         ELSE <<str(ip[1]), str(ip[2]), <<"x">>, <<"x">>>>
    ELSE <<<<"u", "n", "k", "n", "o", "w", "n">>>>

get_ip_network(ip) ==
    IF IPv4Address_ok(ip)
    THEN IF in_192_168_0_0_16(ip)
         THEN <<<<"1", "9", "2">>, <<"1", "6", "8">>, <<"x">>, <<"x">>>>
         ELSE IF in_10_0_0_0_8(ip)
         THEN <<<<"1", "0">>, <<"x">>, <<"x">>, <<"x">>>>
         ELSE IF in_172_16_0_0_12(ip)
         THEN <<<<"1", "7", "2">>, <<"1", "6", "-", "3", "1">>, <<"x">>, <<"x">>>>
         ELSE <<str(ip[1]), str(ip[2]), <<"x">>, <<"x">>>>
    ELSE <<<<"u", "n", "k", "n", "o", "w", "n">>>>

is_significant_ip_change(ip1, ip2) == get_ip_network(ip1) # get_ip_network(ip2)

(***************************************************************************)
(* Mitigation advisor.                                                     *)
(***************************************************************************)
get_mitigation_suggestions(anomaly_type, severity, details) ==
    IF anomaly_type = "brute_force_attempt" THEN
        <<"Block the suspicious IP address immediately",
          "Enable account lockout after 3 failed attempts",
          "Alert security team and investigate the source",
          "Introduce CAPTCHA after multiple failures">>
    ELSE IF anomaly_type = "suspicious_ip" THEN
        <<"Block the known suspicious IP address",
          "Add IP to firewall blacklist",
          "Monitor for additional activity from this IP",
          "Alert security team for investigation",
          "Isolate affected systems from the network if compromise is suspected">>
    ELSE IF anomaly_type = "external_ip_access" THEN
        <<"Verify user identity through additional authentication",
          "Monitor user activity for suspicious behavior",
          "Consider implementing VPN requirement for external access",
          "Alert user's manager if unusual access pattern">>
    ELSE IF anomaly_type = "geo_hop" THEN
        <<"Immediately suspend user account for security review",
          "Force password reset and re-authentication",
          "Alert security team for potential account compromise",
          "Check for unauthorized access to user credentials">>
    ELSE IF anomaly_type = "off_hours_login" THEN
        IF severity = "medium" THEN
            <<"Verify user identity through additional authentication",
              "Monitor for additional suspicious activity",
              "Alert user's manager if pattern continues",
              "Review user role to assess if off-hours activity is expected">>
        ELSE
            <<"Log the activity for security review",
              "Monitor for additional off-hours access">>
    ELSE IF anomaly_type = "privilege_escalation" THEN
        <<"Immediately suspend the user account",
          "Force password reset and re-authentication",
          "Alert security team for potential account takeover",
          "Review user's recent activity for unauthorized access">>
    ELSE IF anomaly_type = "data_exfiltration" THEN
        <<"Immediately suspend user account and network access",
          "Block all download capabilities for the user",
          "Alert security team and management immediately",
          "Preserve all logs and evidence for investigation">>
    ELSE <<>>

anomaly_bare(timestamp, user_id, ip_address, anomaly_type, reason, severity, details) ==
    [timestamp |-> isoformat(timestamp),
     user_id |-> user_id,
     ip_address |-> ip_address,
     anomaly_type |-> anomaly_type,
     reason |-> reason,
     severity |-> severity,
     details |-> details,
     mitigation_suggestions |-> <<>>]

\* The dict every detector appends to self.anomalies.
anomaly(timestamp, user_id, ip_address, anomaly_type, reason, severity, details) ==
    [timestamp |-> isoformat(timestamp),
     user_id |-> user_id,
     ip_address |-> ip_address,
     anomaly_type |-> anomaly_type,
     reason |-> reason,
     severity |-> severity,
     details |-> details,
     mitigation_suggestions |->
         get_mitigation_suggestions(anomaly_type, severity, details)]

(***************************************************************************)
(* detect_brute_force_attempts                                             *)
(***************************************************************************)
\* failed_attempts is a list of (timestamp, user_id)
brute_force_anomaly(failed_attempts, ip, time_span) ==
    anomaly(failed_attempts[1][1], failed_attempts[1][2], ip,
            "brute_force_attempt",
            <<"Multiple failed login attempts", Len(failed_attempts),
              "from same IP within", time_span, "minutes">>,
            "high",
            [attempt_count |-> Len(failed_attempts),
             time_span_minutes |-> time_span,
             affected_users |->
                 list_set([i \in 1..Len(failed_attempts) |-> failed_attempts[i][2]],
                          UserUniverse)])

\* the check made when a row that is not login_failed ends the sequence
check_failed_attempts(failed_attempts, ip) ==
    IF Len(failed_attempts) >= 3
    THEN LET time_span == Last(failed_attempts)[1] - failed_attempts[1][1]
         IN  IF time_span <= 10
             THEN <<brute_force_anomaly(failed_attempts, ip, time_span)>>
             ELSE <<>>
    ELSE <<>>

check_final_sequence_dropped(failed_attempts, ip) == <<>>

\* "Check final sequence"
check_final_sequence(failed_attempts, ip) ==
    IF Len(failed_attempts) >= 3
    THEN LET time_span == Last(failed_attempts)[1] - failed_attempts[1][1]
         IN  IF time_span <= 10
             THEN <<brute_force_anomaly(failed_attempts, ip, time_span)>>
             ELSE <<>>
    ELSE <<>>

\* the loop over ip_data from row i on, with the current failed_attempts
RECURSIVE brute_force_scan(_, _, _, _)
brute_force_scan(ip_data, ip, i, failed_attempts) ==
    IF i > Len(ip_data) THEN check_final_sequence(failed_attempts, ip)
    ELSE IF ip_data[i].action = "login_failed"
    THEN brute_force_scan(ip_data, ip, i + 1,
             Append(failed_attempts, <<ip_data[i].timestamp, ip_data[i].user_id>>))
    ELSE check_failed_attempts(failed_attempts, ip)
             \o brute_force_scan(ip_data, ip, i + 1, <<>>)

ip_data_of(d, ip) == sort_values(SelectSeq(d, LAMBDA row : row.ip_address = ip))

detect_brute_force_attempts(d) ==
    LET ips == unique(column(d, "ip_address"))
    IN  Concat([k \in 1..Len(ips) |->
                   brute_force_scan(ip_data_of(d, ips[k]), ips[k], 1, <<>>)])

(***************************************************************************)
(* detect_suspicious_ips                                                   *)
(***************************************************************************)
suspicious_ips == {<<8, 8, 8, 8>>, <<1, 1, 1, 1>>, <<208, 67, 222, 222>>}

is_login(action) == action \in {"login_success", "login_failed"}

\* the body of the loop, for one row
suspicious_ip_row_both_checks(row) ==
    LET ip == row.ip_address
        known ==
            IF ip \in suspicious_ips
            THEN <<anomaly(row.timestamp, row.user_id, ip, "suspicious_ip",
                           <<"Access from known suspicious IP", ip>>,
                           "medium", [ip_type |-> "known_suspicious"])>>
            ELSE <<>>
        hour == hour_of(row.timestamp)
        external ==
            IF ~is_internal_ip(ip) /\ is_login(row.action) /\ (hour < 8 \/ hour > 18)
            THEN <<anomaly(row.timestamp, row.user_id, ip, "external_ip_access",
                           <<"External IP access during off-hours", ip, hour>>,
                           "medium", [ip_type |-> "external", off_hours |-> TRUE])>>
            ELSE <<>>
    IN  known \o external

suspicious_ip_row(row) ==
    LET ip == row.ip_address
    IN  IF ip \in suspicious_ips
        THEN <<anomaly(row.timestamp, row.user_id, ip, "suspicious_ip",
                       <<"Access from known suspicious IP", ip>>,
                       "medium", [ip_type |-> "known_suspicious"])>>
        ELSE IF ~is_internal_ip(ip)
        THEN IF is_login(row.action)
             THEN LET hour == hour_of(row.timestamp)
                  IN  IF hour < 8 \/ hour > 18
                      THEN <<anomaly(row.timestamp, row.user_id, ip,
                                     "external_ip_access",
                                     <<"External IP access during off-hours", ip, hour>>,
                                     "medium",
                                     [ip_type |-> "external", off_hours |-> TRUE])>>
                      ELSE <<>>
             ELSE <<>>
        ELSE <<>>

detect_suspicious_ips(d) ==
    Concat([i \in 1..Len(d) |-> suspicious_ip_row(d[i])])

(***************************************************************************)
(* detect_geo_hops                                                         *)
(***************************************************************************)
user_data_of(d, user) == sort_values(SelectSeq(d, LAMBDA row : row.user_id = user))

RECURSIVE geo_hop_scan_current_kept(_, _, _)
geo_hop_scan_current_kept(user_data, i, current) ==
    IF i > Len(user_data) THEN <<>>
    ELSE LET row == user_data[i]
         IN  IF is_login(row.action)
             THEN LET change ==
                        IF current # <<>> /\ row.ip_address # current[1]
                        THEN IF is_significant_ip_change(current[1], row.ip_address)
                             THEN LET time_diff == row.timestamp - current[2]
                                  IN  IF time_diff <= 120
                                      THEN <<[timestamp |-> row.timestamp,
                                              from_ip |-> current[1],
                                              to_ip |-> row.ip_address,
                                              time_diff |-> time_diff]>>
                                      ELSE <<>>
                             ELSE <<>>
                        ELSE <<>>
                  IN  change \o geo_hop_scan_current_kept(user_data, i + 1,
                                    IF current = <<>> \/ change # <<>>
                                    THEN <<row.ip_address, row.timestamp>>
                                    ELSE current)
             ELSE geo_hop_scan_current_kept(user_data, i + 1, current)

\* the first loop from row i on; current is <<>> while current_ip is None,
\* else <<current_ip, current_time>>. Returns ip_changes.
RECURSIVE geo_hop_scan(_, _, _)
geo_hop_scan(user_data, i, current) ==
    IF i > Len(user_data) THEN <<>>
    ELSE LET row == user_data[i]
         IN  IF is_login(row.action)
             THEN LET change ==
                        IF current # <<>> /\ row.ip_address # current[1]
                        THEN IF is_significant_ip_change(current[1], row.ip_address)
                             THEN LET time_diff == row.timestamp - current[2]
                                  IN  IF time_diff <= 120
                                      THEN <<[timestamp |-> row.timestamp,
                                              from_ip |-> current[1],
                                              to_ip |-> row.ip_address,
                                              time_diff |-> time_diff]>>
                                      ELSE <<>>
                             ELSE <<>>
                        ELSE <<>>
                  IN  change \o geo_hop_scan(user_data, i + 1,
                                             <<row.ip_address, row.timestamp>>)
             ELSE geo_hop_scan(user_data, i + 1, current)

geo_hop_flagged_any_change(from_internal, to_internal, time_diff) ==
    time_diff <= 30

geo_hop_flagged_before_30(from_internal, to_internal, time_diff) ==
    from_internal # to_internal /\ time_diff < 30

\* "Only flag if switching between internal and external networks"
geo_hop_flagged(from_internal, to_internal, time_diff) ==
    from_internal # to_internal /\ time_diff <= 30

\* the body of the second loop, for one recorded change
geo_hop_flag(change, user) ==
    LET from_internal == is_internal_ip(change.from_ip)
        to_internal == is_internal_ip(change.to_ip)
    IN  IF geo_hop_flagged(from_internal, to_internal, change.time_diff)
        THEN <<anomaly(change.timestamp, user, change.to_ip, "geo_hop",
                       <<"User switched network", from_internal, to_internal,
                         change.from_ip, change.to_ip, change.time_diff>>,
                       "high",
                       [from_ip |-> change.from_ip,
                        to_ip |-> change.to_ip,
                        time_diff_minutes |-> change.time_diff,
                        from_internal |-> from_internal,
                        to_internal |-> to_internal])>>
        ELSE <<>>

geo_hops_of_user(d, user) ==
    LET ip_changes == geo_hop_scan(user_data_of(d, user), 1, <<>>)
    IN  Concat([k \in 1..Len(ip_changes) |-> geo_hop_flag(ip_changes[k], user)])

detect_geo_hops(d) ==
    LET users == unique(column(d, "user_id"))
    IN  Concat([k \in 1..Len(users) |-> geo_hops_of_user(d, users[k])])

(***************************************************************************)
(* detect_off_hours_activity                                               *)
(***************************************************************************)
business_hours_from_9 == <<9, 18>>

business_hours == <<8, 18>>

off_hours_flagged_failed_only(is_external, is_failed) == is_failed

\* "Only flag off-hours logins if they're from external IPs or failed attempts"
off_hours_flagged(is_external, is_failed) == is_external \/ is_failed

off_hours_row(row) ==
    IF is_login(row.action)
    THEN LET hour == hour_of(row.timestamp)
         IN  IF hour < business_hours[1] \/ hour > business_hours[2]
             THEN LET is_external == ~is_internal_ip(row.ip_address)
                      is_failed == row.action = "login_failed"
                  IN  IF off_hours_flagged(is_external, is_failed)
                      THEN LET severity == IF is_external THEN "medium" ELSE "low"
                               reason ==
                                   IF is_external
                                   THEN <<"Off-hours login from external IP at", hour>>
                                   ELSE <<"Failed login attempt at", hour>>
                           IN  <<anomaly(row.timestamp, row.user_id, row.ip_address,
                                         "off_hours_login", reason, severity,
                                         [login_hour |-> hour,
                                          business_hours |-> business_hours,
                                          external_ip |-> is_external,
                                          failed_attempt |-> is_failed])>>
                      ELSE <<>>
             ELSE <<>>
    ELSE <<>>

detect_off_hours_activity(d) ==
    Concat([i \in 1..Len(d) |-> off_hours_row(d[i])])

(***************************************************************************)
(* detect_privilege_escalation                                             *)
(***************************************************************************)
failed_count_after_success_kept(row, failed_count) ==
    IF row.action = "login_failed" THEN failed_count + 1
    ELSE IF row.action = "login_success" /\ failed_count >= 4 THEN 0
    ELSE failed_count

\* failed_count after the row
failed_count_after(row, failed_count) ==
    IF row.action = "login_failed" THEN failed_count + 1
    ELSE IF row.action = "login_success" /\ failed_count >= 4 THEN 0
    ELSE IF row.action = "login_success" THEN 0
    ELSE failed_count

RECURSIVE privilege_escalation_scan(_, _, _, _)
privilege_escalation_scan(user_data, user, i, failed_count) ==
    IF i > Len(user_data) THEN <<>>
    ELSE LET row == user_data[i]
             found ==
                 IF row.action # "login_failed" /\ row.action = "login_success"
                        /\ failed_count >= 4
                 THEN <<anomaly(row.timestamp, user, row.ip_address,
                                "privilege_escalation",
                                <<"Successful login after failed attempts", failed_count>>,
                                "high",
                                [failed_attempts_before_success |-> failed_count])>>
                 ELSE <<>>
         IN  found \o privilege_escalation_scan(user_data, user, i + 1,
                                                failed_count_after(row, failed_count))

detect_privilege_escalation(d) ==
    LET users == unique(column(d, "user_id"))
    IN  Concat([k \in 1..Len(users) |->
                   privilege_escalation_scan(user_data_of(d, users[k]), users[k], 1, 0)])

(***************************************************************************)
(* detect_data_exfiltration                                                *)
(***************************************************************************)
exfiltration_within_under_1_hour(time_span) == time_span < 60

\* "Within 1 hour"
exfiltration_within_1_hour(time_span) == time_span <= 60

\* time_span_hours is total_seconds() / 3600, kept as the fraction minutes/60
data_exfiltration_of_user(d, user) ==
    LET user_data == user_data_of(d, user)
        downloads == SelectSeq(user_data, LAMBDA row : row.action = "download_file")
    IN  IF Len(downloads) >= 8
        THEN LET time_span == Last(downloads).timestamp - downloads[1].timestamp
             IN  IF exfiltration_within_1_hour(time_span)
                 THEN <<anomaly(downloads[1].timestamp, user, downloads[1].ip_address,
                                "data_exfiltration",
                                <<"User downloaded files", Len(downloads), time_span>>,
                                "high",
                                [download_count |-> Len(downloads),
                                 time_span_hours |-> <<time_span, 60>>,
                                 download_times |->
                                     [k \in 1..Len(downloads) |->
                                         isoformat(downloads[k].timestamp)]])>>
                 ELSE <<>>
        ELSE <<>>

detect_data_exfiltration(d) ==
    LET users == unique(column(d, "user_id"))
    IN  Concat([k \in 1..Len(users) |-> data_exfiltration_of_user(d, users[k])])

(***************************************************************************)
(* run_analysis: the final sort, and generate_report                       *)
(***************************************************************************)
severity_order(severity) ==
    IF severity = "high" THEN 3
    ELSE IF severity = "medium" THEN 2
    ELSE IF severity = "low" THEN 1
    ELSE 0

key_less_severity_only(a, b) ==
    severity_order(a.severity) < severity_order(b.severity)

\* key(a) < key(b) for the key (severity_order.get(severity, 0), timestamp)
key_less(a, b) ==
    \/ severity_order(a.severity) < severity_order(b.severity)
    \/ /\ severity_order(a.severity) = severity_order(b.severity)
       /\ LexLess(a.timestamp, b.timestamp)

RECURSIVE insert_anomaly_before_ties(_, _)
insert_anomaly_before_ties(sorted, x) ==
    IF sorted = <<>> THEN <<x>>
    ELSE IF ~key_less(x, Last(sorted))
    THEN Append(insert_anomaly_before_ties(SubSeq(sorted, 1, Len(sorted) - 1), x),
                Last(sorted))
    ELSE Append(sorted, x)

\* list.sort(key=..., reverse=True) is stable: x goes behind every element
\* whose key is not smaller than its own.
RECURSIVE insert_anomaly(_, _)
insert_anomaly(sorted, x) ==
    IF sorted = <<>> THEN <<x>>
    ELSE IF key_less(Last(sorted), x)
    THEN Append(insert_anomaly(SubSeq(sorted, 1, Len(sorted) - 1), x), Last(sorted))
    ELSE Append(sorted, x)

RECURSIVE sort_anomalies(_)
sort_anomalies(s) ==
    IF s = <<>> THEN <<>>
    ELSE insert_anomaly(sort_anomalies(SubSeq(s, 1, Len(s) - 1)), Last(s))

Counter_of_distinct(xs) ==
    LET keys == unique(xs)
    IN  [k \in 1..Len(keys) |-> <<keys[k], 1>>]

\* dict(Counter(xs)): <<value, count>> for each distinct value, in order of
\* first appearance
Counter(xs) ==
    LET keys == unique(xs)
    IN  [k \in 1..Len(keys) |->
            <<keys[k], Cardinality({i \in 1..Len(xs) : xs[i] = keys[k]})>>]

generate_report(now) ==
    [analysis_metadata |->
        [total_log_entries |-> Len(df),
         analysis_timestamp |-> isoformat(now),
         total_anomalies_found |-> Len(anomalies),
         anomaly_types |-> list_set(column(anomalies, "anomaly_type"), TypeUniverse),
         severity_distribution |-> Counter(column(anomalies, "severity"))],
     anomalies |-> anomalies]

(***************************************************************************)
(* The steps of main(): run_analysis() and generate_report().              *)
(***************************************************************************)
\* the six detect_ methods run_analysis calls
Detectors == {"brute_force", "suspicious_ips", "geo_hops", "off_hours",
              "privilege_escalation", "data_exfiltration"}

Step(from, to) == pc = from /\ pc' = to /\ UNCHANGED <<web, emitted>>

\* load_data when pd.read_csv finds the file
LoadData ==
    /\ Step("start", "brute_force")
    /\ csv_found
    /\ df' = sort_values(csv)
    /\ UNCHANGED <<csv_found, csv, anomalies, report, hashseed, first_report>>

LoadFail_swallowed ==
    /\ Step("start", "brute_force")
    /\ ~csv_found
    /\ UNCHANGED <<csv_found, csv, df, anomalies, report, hashseed, first_report>>

\* load_data when pd.read_csv raises FileNotFoundError: nothing catches it
LoadFail ==
    /\ Step("start", "failed")
    /\ ~csv_found
    /\ UNCHANGED <<csv_found, csv, df, anomalies, report, hashseed, first_report>>

\* what no detector changes
frame == <<csv_found, csv, df, report, hashseed, first_report>>

DetectBruteForce ==
    /\ Step("brute_force", "suspicious_ips")
    /\ anomalies' = anomalies \o detect_brute_force_attempts(df)
    /\ UNCHANGED frame

DetectSuspiciousIps ==
    /\ Step("suspicious_ips", "geo_hops")
    /\ anomalies' = anomalies \o detect_suspicious_ips(df)
    /\ UNCHANGED frame

DetectGeoHops ==
    /\ Step("geo_hops", "off_hours")
    /\ anomalies' = anomalies \o detect_geo_hops(df)
    /\ UNCHANGED frame

DetectOffHours ==
    /\ Step("off_hours", "privilege_escalation")
    /\ anomalies' = anomalies \o detect_off_hours_activity(df)
    /\ UNCHANGED frame

DetectPrivilegeEscalation_assigning ==
    /\ Step("privilege_escalation", "data_exfiltration")
    /\ anomalies' = detect_privilege_escalation(df)
    /\ UNCHANGED frame

DetectPrivilegeEscalation ==
    /\ Step("privilege_escalation", "data_exfiltration")
    /\ anomalies' = anomalies \o detect_privilege_escalation(df)
    /\ UNCHANGED frame

DetectDataExfiltration ==
    /\ Step("data_exfiltration", "sort")
    /\ anomalies' = anomalies \o detect_data_exfiltration(df)
    /\ UNCHANGED frame

SortAnomalies ==
    /\ Step("sort", "analysed")
    /\ anomalies' = sort_anomalies(anomalies)
    /\ UNCHANGED <<csv_found, csv, df, report, hashseed, first_report>>

GenerateReport ==
    /\ Step("analysed", "done")
    /\ \E now \in Clock : report' = <<generate_report(now)>>
    /\ UNCHANGED <<csv_found, csv, df, anomalies, hashseed, first_report>>

\* The script is executed a second time, in a new process, on the same file.
Rerun ==
    /\ Step("done", "start")
    /\ first_report = <<>>
    /\ first_report' = report
    /\ df' = <<>>
    /\ anomalies' = <<>>
    /\ report' = <<>>
    /\ hashseed' \in HashSeeds
    /\ UNCHANGED <<csv_found, csv>>

Next ==
    \/ LoadData
    \/ LoadFail
    \/ DetectBruteForce
    \/ DetectSuspiciousIps
    \/ DetectGeoHops
    \/ DetectOffHours
    \/ DetectPrivilegeEscalation
    \/ DetectDataExfiltration
    \/ SortAnomalies
    \/ GenerateReport

NextRerun == Next \/ Rerun

\* run_analysis() and generate_report() are called a second time on the same
\* detector object: self.anomalies is assigned in __init__ only, the report
\* file of the first call is still there.
RunAgain ==
    /\ Step("done", "start")
    /\ first_report = <<>>
    /\ first_report' = report
    /\ UNCHANGED <<csv_found, csv, df, anomalies, report, hashseed>>

NextAgain == Next \/ RunAgain

(***************************************************************************)
(* Input files.                                                            *)
(***************************************************************************)
Row(t, u, ip, a) == [timestamp |-> t, user_id |-> u, ip_address |-> ip, action |-> a]

Logs(rows, n) == UNION {[1..k -> rows] : k \in 0..n}

\* The script starts on one of the files `logs`, in a process whose hash seed
\* is one of `seeds`.
InitOn(logs, seeds) ==
    /\ csv_found \in BOOLEAN
    /\ csv \in IF csv_found THEN logs ELSE {<<>>}
    /\ df = <<>>
    /\ anomalies = <<>>
    /\ report = <<>>
    /\ pc = "start"
    /\ hashseed \in seeds
    /\ first_report = <<>>
    /\ reports = <<>>
    /\ request = <<>>
    /\ response = <<>>
    /\ invoked = <<>>
    /\ emitted = [d \in Detectors |-> 0]

INT10 == <<10, 0, 0, 5>>
INT192 == <<192, 168, 1, 1>>
DNS == <<8, 8, 8, 8>>
EXT == <<203, 0, 113, 5>>
BAD == <<999, 1, 1, 1>>

\* minutes of day 1 at h:m
At(h, m) == 60 * h + m

\* A mixed day of user u1 around the end of business hours, and user u2.
Rows ==
    {Row(At(18, 50), "u1", DNS, "login_success"),
     Row(At(19, 0), "u1", INT10, "login_failed"),
     Row(At(19, 2), "u1", INT10, "view_page"),
     Row(At(19, 5), "u1", EXT, "login_success"),
     Row(At(19, 10), "u1", INT192, "login_success"),
     Row(At(19, 30), "u1", DNS, "login_success"),
     Row(At(19, 31), "u1", BAD, "login_success"),
     Row(At(12, 0), "u1", DNS, "download_file"),
     Row(At(8, 0), "u1", EXT, "login_success"),
     Row(At(7, 59), "u2", EXT, "login_success"),
     Row(At(18, 59), "u2", EXT, "login_failed")}

\* Failed logins from EXT at 10:00, 10:10 and 10:11, a successful one at
\* 10:11, and a failed login from another address in between.
RowsBF ==
    {Row(At(10, 0), "u1", EXT, "login_failed"),
     Row(At(10, 10), "u2", EXT, "login_failed"),
     Row(At(10, 11), "u1", EXT, "login_failed"),
     Row(At(10, 11), "u1", EXT, "login_success"),
     Row(At(10, 5), "u1", INT10, "login_failed")}

Init == InitOn(Logs(Rows, MaxRows), HashSeeds)

Spec == Init /\ [][Next]_vars

SpecRerun == Init /\ [][NextRerun]_vars

SpecAgain == Init /\ [][NextAgain]_vars

InitBF == InitOn(Logs(RowsBF, MaxRowsBF), HashSeeds)

SpecBF == InitBF /\ [][Next]_vars

\* Logins of u1: a failure on day 1, and on day 2 at 10:00 a failure from
\* another address, a success and a page view; a failure of u2. The rows of
\* day 2 are loaded in file order.
RowsPE ==
    {Row(At(10, 0), "u1", INT10, "login_failed"),
     Row(At(34, 0), "u1", EXT, "login_failed"),
     Row(At(34, 0), "u1", INT10, "login_success"),
     Row(At(34, 0), "u1", INT10, "view_page"),
     Row(At(34, 0), "u2", INT10, "login_failed")}

\* the hash seed has no part in detect_privilege_escalation and
\* detect_data_exfiltration
InitPE == InitOn(Logs(RowsPE, MaxRowsPE), {0})

SpecPE == InitPE /\ [][Next]_vars

\* Downloads of u1 at 11:01, 11:00 and 10:00, a download of u2 at 10:30 and a
\* page view of u1 at 9:00: a file holds any number of copies of each, newest
\* kind first.
KindsDE ==
    <<Row(At(11, 1), "u1", EXT, "download_file"),
      Row(At(11, 0), "u1", EXT, "download_file"),
      Row(At(10, 0), "u1", INT10, "download_file"),
      Row(At(10, 30), "u2", DNS, "download_file"),
      Row(At(9, 0), "u1", INT192, "view_page")>>

RECURSIVE Sum(_)
Sum(c) == IF c = <<>> THEN 0 ELSE Head(c) + Sum(Tail(c))

BlockLogs(kinds, n) ==
    {Concat([k \in 1..Len(kinds) |-> [i \in 1..c[k] |-> kinds[k]]]) :
        c \in {c \in [1..Len(kinds) -> 0..n] : Sum(c) <= n}}

InitDE == InitOn(BlockLogs(KindsDE, MaxRowsDE), {0})

SpecDE == InitDE /\ [][Next]_vars

(***************************************************************************)
(* Properties.                                                             *)
(***************************************************************************)
of_type(type) == SelectSeq(anomalies, LAMBDA a : a.anomaly_type = type)

Count(S) == Cardinality(S)

\* the rows of one address / one user, in the order of the loaded data
rows_of_ip(ip) == SelectSeq(df, LAMBDA row : row.ip_address = ip)
rows_of_user(user) == SelectSeq(df, LAMBDA row : row.user_id = user)

ips_of_df == Range(column(df, "ip_address"))
users_of_df == Range(column(df, "user_id"))

PcOrder == <<"start", "brute_force", "suspicious_ips", "geo_hops", "off_hours",
             "privilege_escalation", "data_exfiltration", "sort", "analysed", "done">>

\* the step at `at` has been taken
After(at) ==
    \E i, j \in 1..Len(PcOrder) : PcOrder[i] = at /\ PcOrder[j] = pc /\ i < j

AfterBruteForce == After("brute_force")

\* <<i, j>>: rows i..j of s are a maximal run of consecutive login_failed rows
MaximalRuns(s) ==
    {r \in (1..Len(s)) \X (1..Len(s)) :
        /\ r[1] <= r[2]
        /\ \A k \in r[1]..r[2] : s[k].action = "login_failed"
        /\ r[1] = 1 \/ s[r[1] - 1].action # "login_failed"
        /\ r[2] = Len(s) \/ s[r[2] + 1].action # "login_failed"}

\* <<ip, i, j>>: a maximal run of ip of length >= 3 spanning <= 10 minutes
FlaggedRuns ==
    {x \in UNION {{<<ip, r[1], r[2]>> : r \in MaximalRuns(rows_of_ip(ip))} :
                     ip \in ips_of_df} :
        /\ x[3] - x[2] + 1 >= 3
        /\ rows_of_ip(x[1])[x[3]].timestamp - rows_of_ip(x[1])[x[2]].timestamp <= 10}

RunSummary(x) ==
    <<isoformat(rows_of_ip(x[1])[x[2]].timestamp), rows_of_ip(x[1])[x[2]].user_id,
      x[1], "high", x[3] - x[2] + 1>>

BruteForceSummary(a) ==
    <<a.timestamp, a.user_id, a.ip_address, a.severity, a.details.attempt_count>>

\* C1: once detect_brute_force_attempts has run, the brute_force_attempt
\* findings are, one for one, the maximal runs of consecutive login_failed rows
\* of one address that have length >= 3 and span <= 10 minutes (whether ended
\* by another row of the address or by the end of its rows): each is high,
\* carries the first failure's timestamp and user_id, and counts the run.
C1_BruteForceRuns ==
    AfterBruteForce =>
        LET found == of_type("brute_force_attempt")
        IN  /\ Len(found) = Count(FlaggedRuns)
            /\ \A x \in FlaggedRuns :
                  Count({k \in 1..Len(found) : BruteForceSummary(found[k]) = RunSummary(x)})
                      = Count({y \in FlaggedRuns : RunSummary(y) = RunSummary(x)})

\* a run of three failures of two users, ended by the successful login, was
\* flagged and counted; another maximal run of the log was not flagged
C1_Witness ==
    /\ pc = "done"
    /\ Len(of_type("brute_force_attempt")) = 1
    /\ of_type("brute_force_attempt")[1].details.attempt_count = 3
    /\ Len(of_type("brute_force_attempt")[1].details.affected_users) = 2
    /\ \E x \in FlaggedRuns : x[3] < Len(rows_of_ip(x[1]))
    /\ \E ip \in ips_of_df : \E r \in MaximalRuns(rows_of_ip(ip)) :
          <<ip, r[1], r[2]>> \notin FlaggedRuns

\* <<u, i, j>>: rows i < j of user u are login rows with no login row between
ConsecutiveLogins ==
    UNION {{<<u, p[1], p[2]>> :
               p \in {q \in (1..Len(rows_of_user(u))) \X (1..Len(rows_of_user(u))) :
                         /\ q[1] < q[2]
                         /\ is_login(rows_of_user(u)[q[1]].action)
                         /\ is_login(rows_of_user(u)[q[2]].action)
                         /\ \A k \in (q[1] + 1)..(q[2] - 1) :
                               ~is_login(rows_of_user(u)[k].action)}} :
           u \in users_of_df}

FromRow(x) == rows_of_user(x[1])[x[2]]
ToRow(x) == rows_of_user(x[1])[x[3]]
Elapsed(x) == ToRow(x).timestamp - FromRow(x).timestamp

\* finding a is located at row: same timestamp, user and address
LocatedAt(a, row) ==
    /\ a.timestamp = isoformat(row.timestamp)
    /\ a.user_id = row.user_id
    /\ a.ip_address = row.ip_address

\* C2: every geo_hop finding comes from two login rows of its user whose
\* addresses lie in different network buckets, of which exactly one is
\* internal, and that are at most 30 minutes apart; no geo_hop finding goes
\* from an internal address to an internal address.
C2_GeoHopOnlyOnFlip ==
    After("geo_hops") =>
        \A k \in 1..Len(of_type("geo_hop")) :
            LET a == of_type("geo_hop")[k]
            IN  /\ \E x \in ConsecutiveLogins :
                      /\ x[1] = a.user_id
                      /\ LocatedAt(a, ToRow(x))
                      /\ a.details.from_ip = FromRow(x).ip_address
                      /\ get_ip_network(FromRow(x).ip_address)
                             # get_ip_network(ToRow(x).ip_address)
                      /\ is_internal_ip(FromRow(x).ip_address)
                             # is_internal_ip(ToRow(x).ip_address)
                      /\ Elapsed(x) <= 30
                /\ ~(is_internal_ip(a.details.from_ip) /\ is_internal_ip(a.ip_address))

\* a hop was flagged in a log where the user also moved between two private
\* ranges
C2_Witness ==
    /\ pc = "done"
    /\ Len(of_type("geo_hop")) >= 1
    /\ \E x \in ConsecutiveLogins :
          /\ is_internal_ip(FromRow(x).ip_address)
          /\ is_internal_ip(ToRow(x).ip_address)
          /\ get_ip_network(FromRow(x).ip_address) # get_ip_network(ToRow(x).ip_address)

Rank(a) == CASE a.severity = "high" -> 3
             [] a.severity = "medium" -> 2
             [] a.severity = "low" -> 1

\* C3: after run_analysis every two adjacent findings f, g satisfy
\* rank(f) > rank(g), or rank(f) = rank(g) and timestamp(f) >= timestamp(g).
C3_SortedBySeverityThenTime ==
    After("sort") =>
        \A i \in 1..(Len(anomalies) - 1) :
            \/ Rank(anomalies[i]) > Rank(anomalies[i + 1])
            \/ /\ Rank(anomalies[i]) = Rank(anomalies[i + 1])
               /\ ~LexLess(anomalies[i].timestamp, anomalies[i + 1].timestamp)

\* the findings as the six detectors collect them, before the sort
collected ==
    detect_brute_force_attempts(df) \o detect_suspicious_ips(df) \o detect_geo_hops(df)
        \o detect_off_hours_activity(df) \o detect_privilege_escalation(df)
        \o detect_data_exfiltration(df)

\* the sort had to reorder findings of all three severities
C3_Witness ==
    /\ pc = "analysed"
    /\ anomalies # collected
    /\ {anomalies[i].severity : i \in 1..Len(anomalies)} = {"high", "medium", "low"}
    /\ \E i \in 1..(Len(anomalies) - 1) :
          /\ anomalies[i].severity = anomalies[i + 1].severity
          /\ anomalies[i].timestamp # anomalies[i + 1].timestamp

RECURSIVE SumCounts(_)
SumCounts(pairs) == IF pairs = <<>> THEN 0 ELSE Head(pairs)[2] + SumCounts(Tail(pairs))

Metadata == report[1].analysis_metadata

\* C4: in the report the severity_distribution values sum to the number of
\* findings, total_anomalies_found is that number, and anomaly_types holds
\* exactly the distinct anomaly_type values of the findings.
C4_MetadataMatchesFindings ==
    report # <<>> =>
        /\ SumCounts(Metadata.severity_distribution) = Len(report[1].anomalies)
        /\ Metadata.total_anomalies_found = Len(report[1].anomalies)
        /\ Range(Metadata.anomaly_types)
               = {report[1].anomalies[i].anomaly_type : i \in 1..Len(report[1].anomalies)}

\* a report of several findings, some sharing a severity, of several types
C4_Witness ==
    /\ report # <<>>
    /\ Len(report[1].anomalies) >= 4
    /\ Len(Metadata.severity_distribution) = 3
    /\ \E k \in 1..3 : Metadata.severity_distribution[k][2] >= 2
    /\ Len(Metadata.anomaly_types) >= 3

\* the report with the generation timestamp replaced by a fixed value
WithFixedTimestamp(r) ==
    [r EXCEPT !.analysis_metadata.analysis_timestamp = <<>>]

\* C5: a second execution over the same file produces the same report as the
\* first, once the generation timestamp is fixed.
C5_SameReportOnRerun ==
    (first_report # <<>> /\ report # <<>>) =>
        WithFixedTimestamp(report[1]) = WithFixedTimestamp(first_report[1])

OffHours(row) == hour_of(row.timestamp) < 8 \/ hour_of(row.timestamp) > 18

\* the findings of a type located at a row
FindingsAt(type, row) ==
    {k \in 1..Len(anomalies) :
        anomalies[k].anomaly_type = type /\ LocatedAt(anomalies[k], row)}

\* the login_success rows like row: same timestamp, user and address
SuccessRowsLike(row) ==
    {i \in 1..Len(df) :
        /\ df[i].action = "login_success"
        /\ df[i].timestamp = row.timestamp
        /\ df[i].user_id = row.user_id
        /\ df[i].ip_address = row.ip_address}

ExternalOffHoursSuccess(row) ==
    /\ row.action = "login_success"
    /\ ~is_internal_ip(row.ip_address)
    /\ OffHours(row)

\* C6 as stated: every off-hours login_success from a not-internal address has
\* an external_ip_access finding and an off_hours_login finding of its own.
C6_BothFindings ==
    After("off_hours") =>
        \A i \in 1..Len(df) :
            ExternalOffHoursSuccess(df[i]) =>
                /\ Count(FindingsAt("external_ip_access", df[i]))
                       >= Count(SuccessRowsLike(df[i]))
                /\ Count(FindingsAt("off_hours_login", df[i]))
                       >= Count(SuccessRowsLike(df[i]))

\* C6 amended: the same for addresses outside the known-suspicious set; a
\* known-suspicious address has a suspicious_ip finding in place of the
\* external_ip_access finding, next to its off_hours_login finding.
C6_BothFindingsUnlessKnownSuspicious ==
    After("off_hours") =>
        \A i \in 1..Len(df) :
            ExternalOffHoursSuccess(df[i]) =>
                /\ Count(FindingsAt(IF df[i].ip_address \in suspicious_ips
                                    THEN "suspicious_ip" ELSE "external_ip_access",
                                    df[i]))
                       >= Count(SuccessRowsLike(df[i]))
                /\ df[i].ip_address \in suspicious_ips
                       => FindingsAt("external_ip_access", df[i]) = {}
                /\ Count(FindingsAt("off_hours_login", df[i]))
                       >= Count(SuccessRowsLike(df[i]))

\* the same off-hours login_success row twice in the log, from an address
\* that is not known-suspicious: two findings of each of the two types
C6_Witness ==
    /\ pc = "done"
    /\ \E i \in 1..Len(df) :
          /\ ExternalOffHoursSuccess(df[i])
          /\ df[i].ip_address \notin suspicious_ips
          /\ IPv4Address_ok(df[i].ip_address)
          /\ hour_of(df[i].timestamp) = 19
          /\ Count(SuccessRowsLike(df[i])) = 2
          /\ Count(FindingsAt("external_ip_access", df[i])) = 2
          /\ Count(FindingsAt("off_hours_login", df[i])) = 2

\* the number of login_failed rows of s before row j and after the last
\* login_success row before j
FailedSinceSuccess(s, j) ==
    Count({k \in 1..(j - 1) :
              /\ s[k].action = "login_failed"
              /\ \A m \in (k + 1)..(j - 1) : s[m].action # "login_success"})

\* <<u, j>>: row j of user u is a login_success with >= 4 failures before it
Escalations ==
    UNION {{<<u, j>> : j \in {j \in 1..Len(rows_of_user(u)) :
                                 /\ rows_of_user(u)[j].action = "login_success"
                                 /\ FailedSinceSuccess(rows_of_user(u), j) >= 4}} :
           u \in users_of_df}

EscalationSummary(x) ==
    <<isoformat(rows_of_user(x[1])[x[2]].timestamp), x[1],
      rows_of_user(x[1])[x[2]].ip_address, "high",
      FailedSinceSuccess(rows_of_user(x[1]), x[2])>>

PrivilegeEscalationSummary(a) ==
    <<a.timestamp, a.user_id, a.ip_address, a.severity,
      a.details.failed_attempts_before_success>>

\* C7: the privilege_escalation findings are, one for one, the login_success
\* rows of a user that have >= 4 login_failed rows of that user since the
\* user's previous login_success (whatever their address, time and the other
\* rows between), and failed_attempts_before_success is that number.
C7_EscalationAfterFourFailures ==
    After("privilege_escalation") =>
        LET found == of_type("privilege_escalation")
        IN  /\ Len(found) = Count(Escalations)
            /\ \A x \in Escalations :
                  Count({k \in 1..Len(found) :
                            PrivilegeEscalationSummary(found[k]) = EscalationSummary(x)})
                      = Count({y \in Escalations :
                                  EscalationSummary(y) = EscalationSummary(x)})

\* u1 logged in, failed four times from another address and logged in again:
\* only the second login is flagged, with 4
C7_Witness ==
    /\ pc = "done"
    /\ Len(of_type("privilege_escalation")) = 1
    /\ of_type("privilege_escalation")[1].details.failed_attempts_before_success = 4
    /\ \E x \in Escalations :
          /\ \E j \in 1..(x[2] - 1) : rows_of_user(x[1])[j].action = "login_success"
          /\ \A k \in 1..(x[2] - 1) :
                rows_of_user(x[1])[k].action = "login_failed"
                    => rows_of_user(x[1])[k].ip_address
                           # rows_of_user(x[1])[x[2]].ip_address

\* the download_file rows of user u in the file
DownloadsInFile(u) ==
    {i \in 1..Len(csv) : csv[i].user_id = u /\ csv[i].action = "download_file"}

DownloadTimes(u) == {csv[i].timestamp : i \in DownloadsInFile(u)}

\* u has >= 8 downloads, the first and the last at most 1 hour apart
Exfiltrating(u) ==
    /\ Count(DownloadsInFile(u)) >= 8
    /\ \A t1, t2 \in DownloadTimes(u) : t2 - t1 <= 60

FirstDownload(u) ==
    SelectSeq(rows_of_user(u), LAMBDA row : row.action = "download_file")[1]

\* C8: the data_exfiltration findings are one per user with >= 8 download_file
\* rows whose first and last are at most 1 hour apart, and none for any other
\* user; the finding is located at the user's first download and counts the
\* user's downloads.
C8_ExfiltrationPerUser ==
    After("data_exfiltration") =>
        LET found == of_type("data_exfiltration")
        IN  /\ \A u \in users_of_df :
                  Count({k \in 1..Len(found) : found[k].user_id = u})
                      = IF Exfiltrating(u) THEN 1 ELSE 0
            /\ \A k \in 1..Len(found) :
                  /\ found[k].user_id \in users_of_df
                  /\ LocatedAt(found[k], FirstDownload(found[k].user_id))
                  /\ found[k].details.download_count
                         = Count(DownloadsInFile(found[k].user_id))

\* u1 has 8 downloads exactly one hour apart after a page view and is flagged
\* at the first; u2 has downloads and is not flagged
C8_Witness ==
    /\ pc = "done"
    /\ Len(of_type("data_exfiltration")) = 1
    /\ of_type("data_exfiltration")[1].details.download_count = 8
    /\ of_type("data_exfiltration")[1].details.time_span_hours = <<60, 60>>
    /\ of_type("data_exfiltration")[1].user_id = "u1"
    /\ rows_of_user("u1")[1].action = "view_page"
    /\ DownloadsInFile("u2") # {}

\* C9: for two consecutive login rows of a user, the first from an internal
\* address and the second, at most 30 minutes later, from a known-suspicious
\* address, the findings hold a geo_hop located at the second row with from_ip
\* the first address, and a suspicious_ip located at the second row.
C9_HopToKnownSuspicious ==
    After("geo_hops") =>
        \A x \in ConsecutiveLogins :
            (/\ is_internal_ip(FromRow(x).ip_address)
             /\ ToRow(x).ip_address \in suspicious_ips
             /\ Elapsed(x) <= 30)
            => /\ \E k \in FindingsAt("geo_hop", ToRow(x)) :
                     anomalies[k].details.from_ip = FromRow(x).ip_address
               /\ FindingsAt("suspicious_ip", ToRow(x)) # {}

\* a login from 10.0.0.5, a page view, and a login from 8.8.8.8 30 minutes
\* after the first
C9_Witness ==
    /\ pc = "done"
    /\ \E x \in ConsecutiveLogins :
          /\ FromRow(x).ip_address = INT10
          /\ ToRow(x).ip_address = DNS
          /\ Elapsed(x) = 30
          /\ x[3] - x[2] = 2
          /\ FindingsAt("geo_hop", ToRow(x)) # {}
          /\ FindingsAt("suspicious_ip", ToRow(x)) # {}

\* C10: an address that does not parse counts as not internal: an off-hours
\* login from it has an external_ip_access finding and a medium
\* off_hours_login finding, a geo_hop finding reports it as not internal, and
\* two consecutive logins of a user between an internal address and it, at
\* most 30 minutes apart, have a geo_hop finding.
C10_UnparseableIsNotInternal ==
    After("off_hours") =>
        /\ \A i \in 1..Len(df) :
              (/\ ~IPv4Address_ok(df[i].ip_address)
               /\ is_login(df[i].action)
               /\ OffHours(df[i]))
              => /\ \E k \in FindingsAt("external_ip_access", df[i]) :
                       anomalies[k].severity = "medium"
                 /\ \E k \in FindingsAt("off_hours_login", df[i]) :
                       anomalies[k].severity = "medium"
        /\ \A k \in 1..Len(of_type("geo_hop")) :
              LET a == of_type("geo_hop")[k]
              IN  /\ ~IPv4Address_ok(a.details.from_ip) => ~a.details.from_internal
                  /\ ~IPv4Address_ok(a.details.to_ip) => ~a.details.to_internal
        /\ \A x \in ConsecutiveLogins :
              (/\ \/ /\ is_internal_ip(FromRow(x).ip_address)
                     /\ ~IPv4Address_ok(ToRow(x).ip_address)
                  \/ /\ ~IPv4Address_ok(FromRow(x).ip_address)
                     /\ is_internal_ip(ToRow(x).ip_address)
               /\ Elapsed(x) <= 30)
              => \E k \in FindingsAt("geo_hop", ToRow(x)) :
                     anomalies[k].details.from_ip = FromRow(x).ip_address

\* an off-hours login from 999.1.1.1, 21 minutes after a login from
\* 192.168.1.1: the three findings are there
C10_Witness ==
    /\ pc = "done"
    /\ \E x \in ConsecutiveLogins :
          /\ is_internal_ip(FromRow(x).ip_address)
          /\ ToRow(x).ip_address = BAD
          /\ Elapsed(x) <= 30
          /\ \E k \in FindingsAt("geo_hop", ToRow(x)) : ~anomalies[k].details.to_internal
          /\ FindingsAt("external_ip_access", ToRow(x)) # {}
          /\ FindingsAt("off_hours_login", ToRow(x)) # {}

Severities == {"low", "medium", "high", "critical", ""}

\* names get_mitigation_suggestions has no entry for
UnknownTypes == {"unknown", "brute_force", "off_hours", ""}

\* C11: the mitigation list of a finding depends on its type and severity
\* only: every finding carries get_mitigation_suggestions of its type and
\* severity, whatever its details, so two findings of one type and severity
\* carry one list; a type without an entry has the empty list;
\* off_hours_login has one list for medium and one other list for every other
\* severity; every finding of the six detectors has a non-empty list.
C11_MitigationByTypeAndSeverity ==
    /\ \A k \in 1..Len(anomalies) :
          LET a == anomalies[k]
          IN  /\ a.mitigation_suggestions =
                     get_mitigation_suggestions(a.anomaly_type, a.severity, <<>>)
              /\ a.mitigation_suggestions # <<>>
              /\ \A l \in 1..Len(anomalies) :
                     (/\ anomalies[l].anomaly_type = a.anomaly_type
                      /\ anomalies[l].severity = a.severity)
                     => anomalies[l].mitigation_suggestions = a.mitigation_suggestions
    /\ \A type \in UnknownTypes, severity \in Severities :
          get_mitigation_suggestions(type, severity, <<>>) = <<>>
    /\ \A severity \in Severities \ {"medium"} :
          /\ get_mitigation_suggestions("off_hours_login", severity, <<>>) =
                 get_mitigation_suggestions("off_hours_login", "low", <<>>)
          /\ get_mitigation_suggestions("off_hours_login", severity, <<>>) #
                 get_mitigation_suggestions("off_hours_login", "medium", <<>>)

\* a low and two medium off_hours_login findings with different details, the
\* low one with the two-entry list
C11_Witness ==
    /\ pc = "done"
    /\ \E k, l, m \in 1..Len(anomalies) :
          /\ anomalies[k].anomaly_type = "off_hours_login"
          /\ anomalies[l].anomaly_type = "off_hours_login"
          /\ anomalies[m].anomaly_type = "off_hours_login"
          /\ anomalies[k].severity = "medium"
          /\ anomalies[l].severity = "medium"
          /\ anomalies[m].severity = "low"
          /\ anomalies[k].details # anomalies[l].details
          /\ Len(anomalies[m].mitigation_suggestions) = 2
          /\ Len(anomalies[k].mitigation_suggestions) = 4

\* C12: when the file is not found, the run stops in load_data: no detector
\* step is taken, no finding is appended, generate_report is not executed and
\* no report is written.
C12_LoadFailureAborts ==
    ~csv_found =>
        /\ pc \in {"start", "failed"}
        /\ df = <<>>
        /\ anomalies = <<>>
        /\ report = <<>>

\* the run has stopped on the missing file
C12_Witness ==
    /\ ~csv_found
    /\ pc = "failed"
    /\ anomalies = <<>>
    /\ report = <<>>

\* the findings of s with the severity and timestamp of a, in the order of s
ties_of(s, a) ==
    SelectSeq(s, LAMBDA b : b.severity = a.severity /\ b.timestamp = a.timestamp)

\* C13 as stated: in the sorted list, the findings with one severity and
\* timestamp stand in the reverse of the order the detectors emitted them in.
C13_TiesReversed ==
    After("sort") =>
        \A k \in 1..Len(anomalies) :
            ties_of(anomalies, anomalies[k]) = reverse(ties_of(collected, anomalies[k]))

\* C13, amended: in the sorted list, the findings with one severity and
\* timestamp stand in the order the detectors emitted them in.
C13_TiesKeepEmissionOrder ==
    After("sort") =>
        \A k \in 1..Len(anomalies) :
            ties_of(anomalies, anomalies[k]) = ties_of(collected, anomalies[k])

\* an external_ip_access finding and the off_hours_login finding of the same
\* login, the first emitted by the second detector and the other by the
\* fourth, with a finding of a later time that the sort moved ahead of them
C13_Witness ==
    /\ pc = "done"
    /\ anomalies # collected
    /\ \E i, j \in 1..Len(anomalies) :
          /\ i < j
          /\ anomalies[i].anomaly_type = "external_ip_access"
          /\ anomalies[j].anomaly_type = "off_hours_login"
          /\ anomalies[i].severity = anomalies[j].severity
          /\ anomalies[i].timestamp = anomalies[j].timestamp
          /\ ties_of(collected, anomalies[i]) = <<anomalies[i], anomalies[j]>>

\* C14: a second run_analysis on the same detector object over the same file
\* leaves the findings as the first run left them, and the second report
\* equals the first once the generation timestamp is fixed.
C14_SecondRunAddsNoFinding ==
    (first_report # <<>> /\ pc = "done") =>
        /\ anomalies = first_report[1].anomalies
        /\ WithFixedTimestamp(report[1]) = WithFixedTimestamp(first_report[1])

(***************************************************************************)
(* The reports API: backend/main.py, backend/database.py,                  *)
(* backend/error_handling.py.                                              *)
(*                                                                         *)
(* A str is the tuple of its characters. An Optional value is <<>> for     *)
(* None and <<v>> for the value v. A path is the tuple of its segments:    *)
(* <<>> is "/", <<"report", 2>> is "/report/<the uuid generated second>".  *)
(***************************************************************************)
MaxReports == 2

API_KEY == <<"R", "s", "e", "c", "u", "r", "i", "t", "y">>

ROOT == <<>>

\* str.strip()
RECURSIVE lstrip(_)
lstrip(text) ==
    IF text # <<>> /\ Head(text) = " " THEN lstrip(Tail(text)) ELSE text

strip(text) == reverse(lstrip(reverse(lstrip(text))))

\* json.dumps / json.loads of a list of str
json_dumps(value) == <<"json", value>>
json_loads(text) == text[2]

\* datetime.fromisoformat of what datetime.isoformat produced
fromisoformat(d) ==
    ((d[1] * 10 + d[2]) - 1) * 1440 + (d[3] * 10 + d[4]) * 60 + d[5] * 10 + d[6]

JSONResponse(status_code, content) == [status_code |-> status_code, content |-> content]

\* what serving a request comes to: the response, the endpoint and database
\* methods called, and the table afterwards
Outcome(resp, calls, table) == [response |-> resp, invoked |-> calls, reports |-> table]

create_error_response(detail, status_code) ==
    JSONResponse(status_code, [detail |-> detail, status_code |-> status_code])

handle_error(error, context) ==
    create_error_response(<<"Error during", context, error>>, 500)

\* DatabaseManager.create_report: INSERT INTO reports
db_create_report(report_id, title, content, tags, date) ==
    Append(reports, [id |-> report_id, title |-> title, content |-> content,
                     tags |-> json_dumps(tags), date |-> isoformat(date)])

row_to_dict(row) ==
    [id |-> row.id, title |-> row.title, content |-> row.content,
     tags |-> json_loads(row.tags), date |-> fromisoformat(row.date)]

\* DatabaseManager.get_report: None (<<>>) or the dict of the row
db_get_report(report_id) ==
    LET rows == SelectSeq(reports, LAMBDA row : row.id = report_id)
    IN  IF rows # <<>> THEN <<row_to_dict(rows[1])>> ELSE <<>>

\* DatabaseManager.get_all_reports(tag): the one listing method of the class
get_all_reports(tag) ==
    LET all == [i \in 1..Len(reports) |-> row_to_dict(reports[i])]
    IN  IF tag # <<>> /\ tag[1] # <<>>
        THEN SelectSeq(all, LAMBDA r : tag[1] \in Range(r.tags))
        ELSE all

\* validate_request_body: <<>> when valid, <<error_response>> otherwise
validate_request_body(body) ==
    IF body.kind = "empty"
    THEN <<create_error_response("Request body is required", 400)>>
    ELSE IF body.kind = "not_json"
    THEN <<create_error_response("Invalid JSON format in request body", 400)>>
    ELSE IF body.kind = "falsy"
    THEN <<create_error_response("Request body cannot be empty", 400)>>
    ELSE <<>>

\* the validators of CreateReport
cleaned_tags(tags) ==
    LET stripped == [i \in 1..Len(tags) |-> strip(tags[i])]
    IN  SelectSeq(stripped, LAMBDA tag : tag # <<>>)

CreateReport_ok(body_data) ==
    /\ body_data.title # <<>>
    /\ Len(body_data.title[1]) >= 1
    /\ Len(body_data.title[1]) <= 200
    /\ strip(body_data.title[1]) # <<>>
    /\ body_data.content # <<>>
    /\ Len(body_data.content[1]) >= 1
    /\ strip(body_data.content[1]) # <<>>
    /\ body_data.tags # <<>>
    /\ Len(body_data.tags[1]) >= 1
    /\ cleaned_tags(body_data.tags[1]) # <<>>

\* POST /report
create_report(body, report_id, now_1, now_2) ==
    LET error_response == validate_request_body(body)
    IN  IF error_response # <<>>
        THEN Outcome(error_response[1], <<"create_report">>, reports)
        ELSE IF body.kind # "object"
        THEN \* CreateReport(**body_data) raises TypeError
             Outcome(handle_error("TypeError", "creating report"),
                     <<"create_report">>, reports)
        ELSE IF ~CreateReport_ok(body)
        THEN \* ValidationError, re-raised to the exception handlers
             Outcome(JSONResponse(422,
                         [detail |-> "Validation error: One or more fields are invalid",
                          status_code |-> 422]),
                     <<"create_report">>, reports)
        ELSE LET title == strip(body.title[1])
                 content == strip(body.content[1])
                 tags == cleaned_tags(body.tags[1])
             IN  Outcome(JSONResponse(200,
                             [id |-> report_id, title |-> title, content |-> content,
                              tags |-> tags, date |-> now_1]),
                         <<"create_report", "db_manager.create_report">>,
                         db_create_report(report_id, title, content, tags, now_2))

\* GET /report/{report_id}
get_report(report_id) ==
    LET report_data == db_get_report(report_id)
    IN  IF report_data = <<>>
        THEN Outcome(create_error_response(<<"Report not found", report_id>>, 404),
                     <<"get_report", "db_manager.get_report">>, reports)
        ELSE Outcome(JSONResponse(200, report_data[1]),
                     <<"get_report", "db_manager.get_report">>, reports)

\* GET /reports: the handler calls db_manager.get_reports(search_text=search,
\* tag=tag). DatabaseManager has the methods init_database, get_connection,
\* create_report, get_report and get_all_reports, and no attribute
\* get_reports: the lookup raises AttributeError, which the handler's
\* except Exception turns into a 500 response.
get_reports(tag, search) ==
    Outcome(handle_error("AttributeError", "retrieving reports"),
            <<"get_reports">>, reports)

\* GET /
root == Outcome(JSONResponse(200, [message |-> "Intelligence Reports API is running"]),
                <<"root">>, reports)

\* no route of the app matches the path and method
no_route == Outcome(JSONResponse(404, [detail |-> "Not Found"]), <<>>, reports)

api_key_middleware_key_unchecked(req, call_next) ==
    IF req.path = ROOT THEN call_next
    ELSE LET api_key == req.api_key
         IN  IF api_key = <<>> \/ api_key = <<<<>>>>
             THEN Outcome(JSONResponse(401, [detail |-> "API key required"]), <<>>, reports)
             ELSE call_next

\* api_key_middleware: req.api_key is request.headers.get("X-API-Key"),
\* call_next what the rest of the app makes of the request
api_key_middleware(req, call_next) ==
    IF req.path = ROOT THEN call_next
    ELSE LET api_key == req.api_key
         IN  IF api_key = <<>> \/ api_key = <<<<>>>>
             THEN Outcome(JSONResponse(401, [detail |-> "API key required"]), <<>>, reports)
             ELSE IF api_key[1] # API_KEY
             THEN Outcome(JSONResponse(401, [detail |-> "Invalid API key."]), <<>>, reports)
             ELSE call_next

Request(method, path, api_key, body, tag, search) ==
    [method |-> method, path |-> path, api_key |-> api_key, body |-> body,
     tag |-> tag, search |-> search]

\* the app serves req: the middleware, and behind it call_next
Serve(req, call_next) ==
    LET outcome == api_key_middleware(req, call_next)
    IN  /\ request' = req
        /\ response' = outcome.response
        /\ invoked' = outcome.invoked
        /\ reports' = outcome.reports
        /\ UNCHANGED pipeline

\* the X-API-Key header: absent, empty, of another case, right
ApiKeys == {<<>>, <<<<>>>>, <<<<"r", "s", "e", "c", "u", "r", "i", "t", "y">>>>, <<API_KEY>>}

NoBody == [kind |-> "empty", title |-> <<>>, content |-> <<>>, tags |-> <<>>]

Bodies ==
    {[kind |-> k, title |-> <<>>, content |-> <<>>, tags |-> <<>>] :
        k \in {"empty", "not_json", "falsy", "list"}}
    \cup
    {[kind |-> "object", title |-> t, content |-> c, tags |-> g] :
        t \in {<<>>, <<<<" ">>>>, <<<<"a", " ">>>>},
        c \in {<<<<>>>>, <<<<"c">>>>},
        g \in {<<>>, <<<<>>>>, <<<<<<" ">>>>>>, <<<<<<"t">>, <<" ">>>>>>,
               <<<<<<"s">>, <<"t">>>>>>}}

\* the tag and search query parameters
Tags == {<<>>, <<<<"t">>>>, <<<<"s">>>>}
Searches == {<<>>, <<<<"a">>>>}

HealthCheck ==
    \E api_key \in ApiKeys :
        Serve(Request("GET", ROOT, api_key, NoBody, <<>>, <<>>), root)

\* uuid.uuid4() gives an id no stored report has: the number of the report
PostReport ==
    /\ Len(reports) < MaxReports
    /\ \E api_key \in ApiKeys, body \in Bodies, now_1, now_2 \in Clock :
          /\ now_1 <= now_2
          /\ Serve(Request("POST", <<"report">>, api_key, body, <<>>, <<>>),
                   create_report(body, Len(reports) + 1, now_1, now_2))

GetReport ==
    \E api_key \in ApiKeys, report_id \in 1..MaxReports :
        Serve(Request("GET", <<"report", report_id>>, api_key, NoBody, <<>>, <<>>),
              get_report(report_id))

GetReports ==
    \E api_key \in ApiKeys, tag \in Tags, search \in Searches :
        Serve(Request("GET", <<"reports">>, api_key, NoBody, tag, search),
              get_reports(tag, search))

NoRoute ==
    \E api_key \in ApiKeys :
        Serve(Request("GET", <<"anomalies">>, api_key, NoBody, <<>>, <<>>), no_route)

NextWeb ==
    \/ HealthCheck
    \/ PostReport
    \/ GetReport
    \/ GetReports
    \/ NoRoute

\* the server starts on an empty reports.db; no analysis is running
InitWeb ==
    /\ csv_found = FALSE
    /\ csv = <<>>
    /\ df = <<>>
    /\ anomalies = <<>>
    /\ report = <<>>
    /\ pc = "start"
    /\ hashseed = 0
    /\ first_report = <<>>
    /\ reports = <<>>
    /\ request = <<>>
    /\ response = <<>>
    /\ invoked = <<>>
    /\ emitted = [d \in Detectors |-> 0]

SpecWeb == InitWeb /\ [][NextWeb]_vars

\* text contains sub
Contains(text, sub) ==
    \E i \in 0..(Len(text) - Len(sub)) : SubSeq(text, i + 1, i + Len(sub)) = sub

\* the reports of the table that a tag and a search text select
Listed(tag, search) ==
    SelectSeq([i \in 1..Len(reports) |-> row_to_dict(reports[i])],
              LAMBDA r :
                  /\ tag # <<>> => tag[1] \in Range(r.tags)
                  /\ search # <<>> =>
                         Contains(r.title, search[1]) \/ Contains(r.content, search[1]))

\* C15: GET /reports with the valid key answers 200 with the stored reports,
\* those with the tag when a tag is given and those matching the search text
\* when one is given; without filters every report created by POST /report
\* is in the list; the answer is never an error.
C15_GetReportsListsStored ==
    (/\ request # <<>>
     /\ request.method = "GET"
     /\ request.path = <<"reports">>
     /\ request.api_key = <<API_KEY>>)
    => /\ response.status_code = 200
       /\ response.content = Listed(request.tag, request.search)

\* the endpoint the app's routes give a request: <<name>>, or <<>> for none
HandlerOf(req) ==
    IF req.method = "GET" /\ req.path = ROOT THEN <<"root">>
    ELSE IF req.method = "POST" /\ req.path = <<"report">> THEN <<"create_report">>
    ELSE IF req.method = "GET" /\ req.path = <<"reports">> THEN <<"get_reports">>
    ELSE IF req.method = "GET" /\ Len(req.path) = 2 /\ req.path[1] = "report"
    THEN <<"get_report">>
    ELSE <<>>

\* C16: a request for a path other than "/" whose X-API-Key header is absent
\* or is not the configured key is answered 401, no endpoint and no database
\* method is called for it and the table stays as it was; a request for "/"
\* is served whatever its key; a request with the right key is not answered
\* 401 and reaches the endpoint of its route.
C16_KeyRequired ==
    [][request' # <<>> =>
          /\ (request'.path # ROOT /\ request'.api_key # <<API_KEY>>) =>
                 /\ response'.status_code = 401
                 /\ invoked' = <<>>
                 /\ reports' = reports
          /\ request'.path = ROOT =>
                 /\ response'.status_code = 200
                 /\ invoked' = <<"root">>
          /\ (request'.path # ROOT /\ request'.api_key = <<API_KEY>>) =>
                 /\ response'.status_code # 401
                 /\ HandlerOf(request') # <<>> => invoked'[1] = HandlerOf(request')[1]
      ]_vars

\* a valid report posted with the key in another case, to a table that holds
\* a report: 401, nothing called, the table still holds the one report
C16_Witness ==
    /\ request # <<>>
    /\ request.method = "POST"
    /\ request.path = <<"report">>
    /\ request.api_key # <<>>
    /\ request.api_key # <<<<>>>>
    /\ request.api_key # <<API_KEY>>
    /\ CreateReport_ok(request.body)
    /\ response.status_code = 401
    /\ invoked = <<>>
    /\ Len(reports) = 1

\* the rows of df equal to row
CopiesOf(row) == {j \in 1..Len(df) : df[j] = row}

\* C17: detect_off_hours_activity emits an off_hours_login finding for a row
\* exactly when the row is a login_success or login_failed, its hour is
\* before 8 or after 18, and its address is not internal or the login
\* failed: one finding per such row and none for any other row; the finding
\* is medium when the address is not internal and low otherwise.
C17_OffHoursLogin ==
    After("off_hours") =>
        /\ \A i \in 1..Len(df) :
              LET row == df[i]
                  hour == (row.timestamp \div 60) % 24
                  flagged ==
                      /\ row.action \in {"login_success", "login_failed"}
                      /\ hour < 8 \/ hour > 18
                      /\ ~is_internal_ip(row.ip_address) \/ row.action = "login_failed"
              IN  /\ flagged =>
                         Count(FindingsAt("off_hours_login", row)) = Count(CopiesOf(row))
                  /\ ~flagged => FindingsAt("off_hours_login", row) = {}
                  /\ \A k \in FindingsAt("off_hours_login", row) :
                         anomalies[k].severity =
                             IF is_internal_ip(row.ip_address) THEN "low" ELSE "medium"
        /\ \A k \in 1..Len(anomalies) :
              anomalies[k].anomaly_type = "off_hours_login" =>
                  \E i \in 1..Len(df) : LocatedAt(anomalies[k], df[i])

\* a failed login from 10.0.0.5 at 19:00 with a low finding, a login from
\* 203.0.113.5 at 07:59 with a medium one, and a successful login from
\* 192.168.1.1 at 19:10 without a finding
C17_Witness ==
    /\ pc = "done"
    /\ \E i, j, l \in 1..Len(df) :
          /\ df[i].action = "login_failed"
          /\ df[i].ip_address = INT10
          /\ hour_of(df[i].timestamp) = 19
          /\ \E k \in FindingsAt("off_hours_login", df[i]) : anomalies[k].severity = "low"
          /\ df[j].ip_address = EXT
          /\ hour_of(df[j].timestamp) = 7
          /\ \E k \in FindingsAt("off_hours_login", df[j]) : anomalies[k].severity = "medium"
          /\ df[l].action = "login_success"
          /\ df[l].ip_address = INT192
          /\ hour_of(df[l].timestamp) = 19
          /\ FindingsAt("off_hours_login", df[l]) = {}

\* the multiset of the elements of s
BagOf(s) == [x \in Range(s) |-> Count({i \in 1..Len(s) : s[i] = x})]

KnownSuspicious == {<<8, 8, 8, 8>>, <<1, 1, 1, 1>>, <<208, 67, 222, 222>>}

\* C18: detect_suspicious_ips decides each row from the row's own fields:
\* the findings it gives the rows in file order are, as a multiset, the
\* findings it gives them in time order; a row has at most one finding: a
\* medium suspicious_ip finding if its address is a known suspicious one,
\* whatever its action and hour; otherwise a medium external_ip_access
\* finding if its address is not internal, its action is a login and its
\* hour is before 8 or after 18; otherwise none.
C18_SuspiciousIpsPerRow ==
    /\ BagOf(detect_suspicious_ips(csv)) = BagOf(detect_suspicious_ips(sort_values(csv)))
    /\ After("suspicious_ips") =>
          /\ \A i \in 1..Len(df) :
                LET row == df[i]
                    hour == (row.timestamp \div 60) % 24
                    known == row.ip_address \in KnownSuspicious
                    external ==
                        /\ ~known
                        /\ ~is_internal_ip(row.ip_address)
                        /\ row.action \in {"login_success", "login_failed"}
                        /\ hour < 8 \/ hour > 18
                IN  /\ Count(FindingsAt("suspicious_ip", row)) =
                           IF known THEN Count(CopiesOf(row)) ELSE 0
                    /\ Count(FindingsAt("external_ip_access", row)) =
                           IF external THEN Count(CopiesOf(row)) ELSE 0
                    /\ \A k \in FindingsAt("suspicious_ip", row)
                                   \cup FindingsAt("external_ip_access", row) :
                           anomalies[k].severity = "medium"
          /\ \A k \in 1..Len(anomalies) :
                anomalies[k].anomaly_type \in {"suspicious_ip", "external_ip_access"} =>
                    \E i \in 1..Len(df) : LocatedAt(anomalies[k], df[i])

\* a file that is not in time order, with a login from 8.8.8.8 at 19:30 and a
\* download from 8.8.8.8 at 12:00, each with a suspicious_ip finding only,
\* and a login from 203.0.113.5 at 19:05 with an external_ip_access finding
C18_Witness ==
    /\ pc = "done"
    /\ csv # df
    /\ \E i, j, l \in 1..Len(df) :
          /\ df[i].ip_address = DNS
          /\ df[i].action = "login_success"
          /\ hour_of(df[i].timestamp) = 19
          /\ Count(FindingsAt("suspicious_ip", df[i])) = 1
          /\ FindingsAt("external_ip_access", df[i]) = {}
          /\ df[j].ip_address = DNS
          /\ df[j].action = "download_file"
          /\ Count(FindingsAt("suspicious_ip", df[j])) = 1
          /\ df[l].ip_address = EXT
          /\ hour_of(df[l].timestamp) = 19
          /\ Count(FindingsAt("external_ip_access", df[l])) = 1
          /\ FindingsAt("suspicious_ip", df[l]) = {}

\* the login rows of df
logins_of_df == SelectSeq(df, LAMBDA row : row.action \in {"login_success", "login_failed"})

\* C19: in detect_geo_hops every login row of a user becomes the row the next
\* login is compared with, whether or not it was recorded as a hop, and rows
\* of other actions change nothing: every geo_hop finding has the address of
\* the user's login just before as from_ip and the time since that login as
\* elapsed time; every two consecutive logins of a user that switch between
\* an internal and a not-internal address within 30 minutes have a finding;
\* the findings are those of the login rows alone.
C19_HopFromPrecedingLogin ==
    After("geo_hops") =>
        /\ \A k \in 1..Len(of_type("geo_hop")) :
              LET a == of_type("geo_hop")[k]
              IN  \E x \in ConsecutiveLogins :
                      /\ x[1] = a.user_id
                      /\ LocatedAt(a, ToRow(x))
                      /\ a.details.from_ip = FromRow(x).ip_address
                      /\ a.details.time_diff_minutes = Elapsed(x)
        /\ \A x \in ConsecutiveLogins :
              (/\ is_internal_ip(FromRow(x).ip_address) # is_internal_ip(ToRow(x).ip_address)
               /\ Elapsed(x) <= 30)
              => \E k \in FindingsAt("geo_hop", ToRow(x)) :
                     /\ anomalies[k].details.from_ip = FromRow(x).ip_address
                     /\ anomalies[k].details.time_diff_minutes = Elapsed(x)
        /\ BagOf(of_type("geo_hop")) = BagOf(detect_geo_hops(logins_of_df))

\* logins of a user from 203.0.113.5 at 08:00, from 8.8.8.8 at 18:50 and from
\* 10.0.0.5 at 19:00: the second is more than two hours after the first and
\* recorded as no hop, and the finding of the third names 8.8.8.8 and 10
\* minutes
C19_Witness ==
    /\ pc = "done"
    /\ \E x, y \in ConsecutiveLogins :
          /\ x[1] = y[1]
          /\ x[3] = y[2]
          /\ Elapsed(x) > 120
          /\ FindingsAt("geo_hop", ToRow(x)) = {}
          /\ ToRow(x).ip_address = DNS
          /\ ToRow(y).ip_address = INT10
          /\ \E k \in FindingsAt("geo_hop", ToRow(y)) :
                /\ anomalies[k].details.from_ip = DNS
                /\ anomalies[k].details.time_diff_minutes = 10

\* s is the beginning of t
IsPrefix(s, t) == Len(s) <= Len(t) /\ SubSeq(t, 1, Len(s)) = s

\* C20: while the detectors run, the list of findings only grows at its end:
\* every detector step leaves the findings it found in place and unchanged
\* and puts its own behind them; the sort that follows holds the same
\* findings, each as often as before, in another order; no other step
\* touches the list.
C20_AppendOnly ==
    [][/\ pc \in {"brute_force", "suspicious_ips", "geo_hops", "off_hours",
                  "privilege_escalation", "data_exfiltration"}
          => IsPrefix(anomalies, anomalies')
       /\ pc = "sort" => BagOf(anomalies') = BagOf(anomalies)
       /\ pc \in {"start", "analysed", "done", "failed"} => anomalies' = anomalies
      ]_vars

\* a successful login of a user after four failed ones: the
\* privilege_escalation finding has been put behind the findings of two
\* other types, and the sort is about to reorder the list
C20_Witness ==
    /\ pc = "sort"
    /\ Len(anomalies) >= 4
    /\ Last(anomalies).anomaly_type = "privilege_escalation"
    /\ Count({anomalies[k].anomaly_type : k \in 1..Len(anomalies)}) >= 3
    /\ sort_anomalies(anomalies) # anomalies

(***************************************************************************)
(* The six detectors called in any order, or side by side with their       *)
(* appends interleaved.                                                    *)
(***************************************************************************)
MaxRowsAnyOrder == 2

findings_of_unless_reported(d) ==
    IF d = "brute_force" THEN detect_brute_force_attempts(df)
    ELSE IF d = "suspicious_ips" THEN detect_suspicious_ips(df)
    ELSE IF d = "geo_hops" THEN detect_geo_hops(df)
    ELSE IF d = "off_hours"
    THEN SelectSeq(detect_off_hours_activity(df),
                   LAMBDA a : \A k \in 1..Len(anomalies) :
                       \/ anomalies[k].anomaly_type = "off_hours_login"
                       \/ anomalies[k].timestamp # a.timestamp
                       \/ anomalies[k].user_id # a.user_id)
    ELSE IF d = "privilege_escalation" THEN detect_privilege_escalation(df)
    ELSE detect_data_exfiltration(df)

\* what detector d appends in one call: each detect_ method reads self.df
\* and nothing else of the object
findings_of(d) ==
    IF d = "brute_force" THEN detect_brute_force_attempts(df)
    ELSE IF d = "suspicious_ips" THEN detect_suspicious_ips(df)
    ELSE IF d = "geo_hops" THEN detect_geo_hops(df)
    ELSE IF d = "off_hours" THEN detect_off_hours_activity(df)
    ELSE IF d = "privilege_escalation" THEN detect_privilege_escalation(df)
    ELSE detect_data_exfiltration(df)

LoadDataAnyOrder ==
    /\ Step("start", "detectors")
    /\ csv_found
    /\ df' = sort_values(csv)
    /\ UNCHANGED <<csv_found, csv, anomalies, report, hashseed, first_report>>

\* one self.anomalies.append of one of the detectors
DetectorAppend ==
    /\ pc = "detectors"
    /\ \E d \in Detectors :
          /\ emitted[d] < Len(findings_of(d))
          /\ anomalies' = Append(anomalies, findings_of(d)[emitted[d] + 1])
          /\ emitted' = [emitted EXCEPT ![d] = @ + 1]
    /\ UNCHANGED <<csv_found, csv, df, report, pc, hashseed, first_report, web>>

\* every detector has returned
DetectorsJoin ==
    /\ Step("detectors", "sort")
    /\ \A d \in Detectors : emitted[d] = Len(findings_of(d))
    /\ UNCHANGED <<csv_found, csv, df, anomalies, report, hashseed, first_report>>

NextAnyOrder ==
    \/ LoadDataAnyOrder
    \/ LoadFail
    \/ DetectorAppend
    \/ DetectorsJoin
    \/ SortAnomalies
    \/ GenerateReport

InitAnyOrder == InitOn(Logs(Rows, MaxRowsAnyOrder), {0})

SpecAnyOrder == InitAnyOrder /\ [][NextAnyOrder]_vars

\* the anomaly types a detector emits
EmittedTypes(d) ==
    CASE d = "brute_force" -> {"brute_force_attempt"}
      [] d = "suspicious_ips" -> {"suspicious_ip", "external_ip_access"}
      [] d = "geo_hops" -> {"geo_hop"}
      [] d = "off_hours" -> {"off_hours_login"}
      [] d = "privilege_escalation" -> {"privilege_escalation"}
      [] d = "data_exfiltration" -> {"data_exfiltration"}

\* every element of s is in t at least as often as in s
SubBag(s, t) ==
    \A x \in Range(s) :
        Count({i \in 1..Len(s) : s[i] = x}) <= Count({i \in 1..Len(t) : t[i] = x})

\* C21: the detectors do not depend on each other: whatever the order of
\* their calls and however their appends interleave, the findings collected
\* before the sort are, as a multiset, those of the order run_analysis uses,
\* and while the detectors run the list never holds anything else; the
\* anomaly types of two detectors are disjoint; the loaded data stay the
\* file's rows in time order.
C21_DetectorsIndependent ==
    /\ pc = "detectors" => SubBag(anomalies, collected)
    /\ pc = "sort" => BagOf(anomalies) = BagOf(collected)
    /\ \A d \in Detectors :
          /\ \A k \in 1..Len(findings_of(d)) :
                findings_of(d)[k].anomaly_type \in EmittedTypes(d)
          /\ \A e \in Detectors \ {d} : EmittedTypes(d) \cap EmittedTypes(e) = {}
    /\ pc \notin {"start", "failed"} => df = sort_values(csv)

\* three detectors have findings and the appends came in another order than
\* the one of run_analysis
C21_Witness ==
    /\ pc = "sort"
    /\ anomalies # collected
    /\ Count({d \in Detectors : emitted[d] > 0}) >= 3
    /\ emitted["geo_hops"] > 0
    /\ anomalies[1].anomaly_type = "off_hours_login"

(***************************************************************************)
(* Logins of one user from addresses at and around the borders of the      *)
(* private ranges.                                                         *)
(***************************************************************************)
MaxRowsIP == 2

Addresses ==
    {<<192, 168, 1, 1>>, <<192, 169, 1, 1>>, <<10, 0, 0, 5>>, <<11, 0, 0, 5>>,
     <<172, 16, 0, 1>>, <<172, 31, 255, 255>>, <<172, 15, 0, 1>>, <<172, 32, 0, 1>>,
     <<8, 8, 8, 8>>, <<999, 1, 1, 1>>, <<10, 0, 0>>, <<192, 168, 1, 256>>}

\* all at 10:00: the rows are loaded in file order
RowsIP == {Row(At(10, 0), "u1", ip, "login_success") : ip \in Addresses}

InitIP == InitOn(Logs(RowsIP, MaxRowsIP), {0})

SpecIP == InitIP /\ [][Next]_vars

\* '192.168.x.x', '10.x.x.x', '172.16-31.x.x'
PrivateLabels ==
    {<<<<"1", "9", "2">>, <<"1", "6", "8">>, <<"x">>, <<"x">>>>,
     <<<<"1", "0">>, <<"x">>, <<"x">>, <<"x">>>>,
     <<<<"1", "7", "2">>, <<"1", "6", "-", "3", "1">>, <<"x">>, <<"x">>>>}

\* C22: is_internal_ip and get_ip_network agree: an address is internal
\* exactly when its label is one of the three private-range labels; an
\* address that does not parse is not internal and has the label 'unknown';
\* two addresses of which one is internal and the other is not have
\* different labels; two consecutive logins of a user that switch between an
\* internal and a not-internal address within 30 minutes have a geo_hop
\* finding.
C22_ClassificationsAgree ==
    /\ \A i \in 1..Len(csv) :
          LET ip == csv[i].ip_address
          IN  /\ is_internal_ip(ip) <=> get_ip_network(ip) \in PrivateLabels
              /\ ~IPv4Address_ok(ip) =>
                     /\ ~is_internal_ip(ip)
                     /\ get_ip_network(ip) = <<<<"u", "n", "k", "n", "o", "w", "n">>>>
              /\ \A j \in 1..Len(csv) :
                     is_internal_ip(ip) # is_internal_ip(csv[j].ip_address) =>
                         /\ get_ip_network(ip) # get_ip_network(csv[j].ip_address)
                         /\ is_significant_ip_change(ip, csv[j].ip_address)
    /\ After("geo_hops") =>
          \A x \in ConsecutiveLogins :
              (/\ is_internal_ip(FromRow(x).ip_address) # is_internal_ip(ToRow(x).ip_address)
               /\ Elapsed(x) <= 30)
              => \E k \in 1..Len(anomalies) :
                     /\ anomalies[k].anomaly_type = "geo_hop"
                     /\ anomalies[k].details.from_ip = FromRow(x).ip_address
                     /\ anomalies[k].details.to_ip = ToRow(x).ip_address

\* a login from 172.31.255.255 and then one from 172.32.0.1: the last
\* address of the range and the first one behind it, with the geo_hop finding
C22_Witness ==
    /\ pc = "done"
    /\ Len(df) = 2
    /\ df[1].ip_address = <<172, 31, 255, 255>>
    /\ df[2].ip_address = <<172, 32, 0, 1>>
    /\ is_internal_ip(df[1].ip_address)
    /\ ~is_internal_ip(df[2].ip_address)
    /\ \E k \in 1..Len(anomalies) :
          /\ anomalies[k].anomaly_type = "geo_hop"
          /\ anomalies[k].details.from_ip = df[1].ip_address
          /\ anomalies[k].details.to_ip = df[2].ip_address

====
